---- MODULE Spec2Model ----
(***************************************************************************)
(* A model of ardb's Lua scripting bridge, src/src/lua_scripting.cpp:      *)
(* the value marshaler, the sandbox's global protection, the command       *)
(* bridge, the script cache and the EVAL / EVALSHA / SCRIPT machinery      *)
(* with its worker threads, user events and instruction-count hook.        *)
(*                                                                         *)
(* Strings are sequences of tokens.  A token is a chunk of ordinary text,  *)
(* or one of the bytes "CR", "LF", "NUL", whose place in a string decides  *)
(* what the conversions do.                                                *)
(***************************************************************************)
EXTENDS Integers, Sequences, FiniteSets, TLC

VARIABLES
    \* ---- the value marshaler on its own (SpecMarshal)
    mpc,        \* "wire" | "lua" | "back": position of the conversion
    mreply,     \* the RedisReply handed to redisProtocolToLuaType
    mlua,       \* the Lua value on top of the stack
    mback,      \* the RedisReply luaReplyToRedisReply builds from it
    \* ---- the global protection on its own (SpecSandbox)
    G,          \* the names bound in _G
    gmt,        \* whether _G carries the metatable Init set on it
    gres,       \* the last access to a global and its outcome
    \* ---- one bridge call on its own (SpecBridge)
    bpc,        \* "call" | "done"
    bargs,      \* the arguments of redis.call / redis.pcall
    braise,     \* raise_error of the entry point
    bout,       \* what CallArdb left: its return value and the value pushed
    bexec,      \* how many times ProcessRedisCommand was invoked
    \* ---- the server: worker threads, each with its interpreter and its
    \*      connection's RunContext (Spec)
    lua_time_limit, \* m_cfg.lua_time_limit
    store,      \* m_db's scripts: function name -> body
    lua,        \* lua[t]: the functions f_<sha1> defined in thread t's m_lua
    ctx,        \* ctx[t]: lua_executing_func, lua_timeout, lua_kill
    hook,       \* hook[t]: MaskCountHook is installed on m_lua
    pc,         \* pc[t]: "idle" | "run" | "yield" (inside Continue())
    run,        \* run[t]: the call of f_<sha1> in progress
    m_killing_func, \* LUAInterpreter::m_killing_func
    events,     \* events[t]: user events fired and not yet handled by t
    db,         \* the commands ProcessRedisCommand has executed, in order
    rng,        \* state of the global redisLrand48 generator
    draws,      \* draws[t]: what math.random drew in t's current or last run
    result,     \* result[t]: the last command of t's connection and its reply
    ops,        \* client commands taken so far
    crashed,    \* the process died
    stacktop,   \* stacktop[t]: slots in use on the stack of t's m_lua
    \* ---- history
    loaded,     \* digests defined by Load / EVAL since the last Flush call
    live,       \* digests defined by Load / EVAL since FlushScripts last ran
    flushed,    \* digests that were loaded when a Flush was issued, and have
                \* not been loaded again
    heard       \* heard[t]: a Kill naming t's function or "all" (letter case
                \* apart) was issued while t's current run was going on

mvars == <<mpc, mreply, mlua, mback>>
gvars == <<G, gmt, gres>>
bvars == <<bpc, bargs, braise, bout, bexec>>
svars == <<lua_time_limit, store, lua, ctx, hook, pc, run, m_killing_func,
           events, db, rng, draws, result, ops, crashed, stacktop,
           loaded, live, flushed, heard>>

vars == <<mvars, gvars, bvars, svars>>

----------------------------------------------------------------------------
(* Helpers                                                                 *)

Max(S) == CHOOSE m \in S : \A k \in S : k <= m

\* std::string(const char*) as used on lua_tostring's result: the bytes
\* before the first NUL.
RECURSIVE CStr(_)
CStr(s) ==
    IF s = <<>> \/ Head(s) = "NUL" THEN <<>>
    ELSE <<Head(s)>> \o CStr(Tail(s))

\* string_replace(str, "\r\n", " "): every CR LF pair becomes one space.
RECURSIVE string_replace(_)
string_replace(s) ==
    IF s = <<>> THEN <<>>
    ELSE IF Len(s) >= 2 /\ s[1] = "CR" /\ s[2] = "LF"
         THEN <<" ">> \o string_replace(Tail(Tail(s)))
         ELSE <<Head(s)>> \o string_replace(Tail(s))

----------------------------------------------------------------------------
(* RedisReply and Lua values                                               *)

\* A 64-bit integer is its sign and the set of bit positions of its
\* magnitude, so that the 53-bit significand of lua_Number can be modelled
\* at its real width.
MantBits == 53

Int64(neg, bits) == [neg |-> neg, bits |-> bits]
Zero == Int64(FALSE, {})
One  == Int64(FALSE, {0})

RECURSIVE AddBit(_, _)
AddBit(bits, p) ==
    IF p \in bits THEN AddBit(bits \ {p}, p + 1) ELSE bits \cup {p}

\* (lua_Number) reply.integer: the nearest double, ties to even.
IntToNumber(i) ==
    IF i.bits = {} THEN i
    ELSE LET lsb     == Max(i.bits) - (MantBits - 1)
             dropped == {p \in i.bits : p < lsb}
             kept    == i.bits \ dropped
             roundUp == /\ (lsb - 1) \in dropped
                        /\ \/ dropped # {lsb - 1}
                           \/ lsb \in kept
         IN  Int64(i.neg, IF roundUp THEN AddBit(kept, lsb) ELSE kept)

\* (long long) lua_tonumber(...): an integer-valued double below 2^63 in
\* magnitude converts exactly.
NumberToInt(n) == Int64(n.neg /\ n.bits # {}, n.bits)

RedisReply(type, integer, str, elements) ==
    [type |-> type, integer |-> integer, str |-> str, elements |-> elements]

ReplyInteger(i) == RedisReply("INTEGER", i, <<>>, <<>>)
ReplyNil        == RedisReply("NIL", Zero, <<>>, <<>>)
ReplyString(s)  == RedisReply("STRING", Zero, s, <<>>)
ReplyStatus(s)  == RedisReply("STATUS", Zero, s, <<>>)
ReplyError(s)   == RedisReply("ERROR", Zero, s, <<>>)
ReplyArray(es)  == RedisReply("ARRAY", Zero, <<>>, es)

LNil        == [t |-> "nil"]
LBoolean(b) == [t |-> "boolean", b |-> b]
LNumber(n)  == [t |-> "number", n |-> n]
LString(s)  == [t |-> "string", s |-> s]
\* A table: its string-keyed fields h and its values a[1], a[2], ... at the
\* integer keys; a[j] = LNil is a hole.
LTable(h, a) == [t |-> "table", h |-> h, a |-> a]
NoFields    == [k \in {} |-> LNil]
OneField(k, v) == [f \in {k} |-> v]

\* lua_gettable on a table
GetField(tbl, k) == IF k \in DOMAIN tbl.h THEN tbl.h[k] ELSE LNil
GetIndex(tbl, j) == IF j \in DOMAIN tbl.a THEN tbl.a[j] ELSE LNil

\* redisProtocolToLuaType with a Nil reply pushed as nil instead of false
RECURSIVE redisProtocolToLuaType_NilAsNil(_)
redisProtocolToLuaType_NilAsNil(reply) ==
    CASE reply.type = "INTEGER" -> LNumber(IntToNumber(reply.integer))
      [] reply.type = "NIL"     -> LNil
      [] reply.type = "STRING"  -> LString(reply.str)
      [] reply.type = "STATUS"  -> LTable(OneField("ok", LString(reply.str)), <<>>)
      [] reply.type = "ERROR"   -> LTable(OneField("err", LString(reply.str)), <<>>)
      [] reply.type = "ARRAY"   ->
            LTable(NoFields,
                   [j \in 1..Len(reply.elements) |->
                        redisProtocolToLuaType_NilAsNil(reply.elements[j])])

RECURSIVE redisProtocolToLuaType(_)
redisProtocolToLuaType(reply) ==
    CASE reply.type = "INTEGER" -> LNumber(IntToNumber(reply.integer))
      [] reply.type = "NIL"     -> LBoolean(FALSE)
      [] reply.type = "STRING"  -> LString(reply.str)
      [] reply.type = "STATUS"  -> LTable(OneField("ok", LString(reply.str)), <<>>)
      [] reply.type = "ERROR"   -> LTable(OneField("err", LString(reply.str)), <<>>)
      [] reply.type = "ARRAY"   ->
            LTable(NoFields,
                   [j \in 1..Len(reply.elements) |->
                        redisProtocolToLuaType(reply.elements[j])])

\* the loop of luaReplyToRedisReply going on past nil to the last value
ArrayEnd_PastHoles(tbl, j) ==
    Max({0} \cup {i \in DOMAIN tbl.a : tbl.a[i].t # "nil"})

\* The length of the run of non-nil values at 1, 2, ...: where the loop of
\* luaReplyToRedisReply breaks.
RECURSIVE ArrayEnd(_, _)
ArrayEnd(tbl, j) ==
    IF GetIndex(tbl, j).t = "nil" THEN j - 1 ELSE ArrayEnd(tbl, j + 1)

RECURSIVE luaReplyToRedisReply(_)
luaReplyToRedisReply(v) ==
    CASE v.t = "string"  -> ReplyString(v.s)
      [] v.t = "boolean" -> IF v.b THEN ReplyInteger(One) ELSE ReplyNil
      [] v.t = "number"  -> ReplyInteger(NumberToInt(v.n))
      [] v.t = "table"   ->
            IF GetField(v, "err").t = "string"
            THEN ReplyError(string_replace(CStr(GetField(v, "err").s)))
            ELSE IF GetField(v, "ok").t = "string"
            THEN ReplyStatus(string_replace(CStr(GetField(v, "ok").s)))
            ELSE ReplyArray([j \in 1..ArrayEnd(v, 1) |->
                                luaReplyToRedisReply(GetIndex(v, j))])
      [] OTHER -> ReplyNil

----------------------------------------------------------------------------
(* SpecMarshal: a reply converted to a Lua value and back                  *)

MaxArrLen == 2      \* longest flat array drawn
MaxDepth  == 2      \* deepest nesting drawn

Strs == { <<>>, <<"OK">>, <<"a", "LF">>, <<"a", "CR", "LF", "b">>,
          <<"CR", "LF">>, <<"a", "NUL", "b">>, <<"CR", "a">> }

Ints == { Zero, One, Int64(TRUE, {0}), Int64(FALSE, {MantBits}),
          Int64(FALSE, {MantBits, 0}), Int64(TRUE, {MantBits + 1, 1, 0}) }

Leaves ==
    {ReplyNil} \cup {ReplyString(s) : s \in Strs}
               \cup {ReplyStatus(s) : s \in Strs}
               \cup {ReplyError(s) : s \in Strs}
               \cup {ReplyInteger(i) : i \in Ints}

\* the elements flat arrays are drawn over
ArrLeaves ==
    { ReplyNil, ReplyString(<<"a", "CR", "LF", "b">>), ReplyStatus(<<"OK">>),
      ReplyError(<<"a">>), ReplyStatus(<<"a", "CR", "LF", "b">>),
      ReplyInteger(One), ReplyInteger(Int64(FALSE, {MantBits, 0})) }

FlatArrays ==
    UNION { {ReplyArray(es) : es \in [1..n -> ArrLeaves]} : n \in 0..MaxArrLen }

\* one more level of nesting around x
Wrap(x) == { ReplyArray(<<x>>), ReplyArray(<<ReplyNil, x>>),
             ReplyArray(<<x, ReplyString(<<"a">>)>>) }

RECURSIVE Nested(_)
Nested(d) ==
    IF d <= 1 THEN FlatArrays
    ELSE Nested(d - 1) \cup UNION { Wrap(x) : x \in Nested(d - 1) }

WireSample == Leaves \cup Nested(MaxDepth)

RECURSIVE Depth(_)
Depth(r) ==
    IF r.type # "ARRAY" THEN 0
    ELSE IF r.elements = <<>> THEN 1
    ELSE 1 + Max({Depth(r.elements[j]) : j \in 1..Len(r.elements)})

MarshalInit ==
    /\ mpc = "wire"
    /\ mreply \in WireSample
    /\ mlua = LNil
    /\ mback = ReplyNil

ToScriptValue ==
    /\ mpc = "wire"
    /\ mlua' = redisProtocolToLuaType(mreply)
    /\ mpc' = "lua"
    /\ UNCHANGED <<mreply, mback, gvars, bvars, svars>>

ToWireReply ==
    /\ mpc = "lua"
    /\ mback' = luaReplyToRedisReply(mlua)
    /\ mpc' = "back"
    /\ UNCHANGED <<mreply, mlua, gvars, bvars, svars>>

MarshalNext == ToScriptValue \/ ToWireReply

----------------------------------------------------------------------------
(* SpecTable: a table a script returns, converted to a reply               *)

MaxTblLen == 3      \* most integer keys of a table drawn

\* the values at the integer keys: nil is a hole; the tables are one with a
\* hole at key 1, one with a hole at key 2, one with a table inside, an
\* empty one and an error table
TblElems ==
    { LNil, LString(<<"a">>), LNumber(One), LBoolean(FALSE),
      LTable(NoFields, <<>>),
      LTable(NoFields, <<LNil, LString(<<"b">>)>>),
      LTable(NoFields, <<LString(<<"c">>), LNil, LString(<<"d">>)>>),
      LTable(NoFields, <<LTable(NoFields, <<LNumber(One), LNil, LNumber(One)>>),
                         LNil, LString(<<"e">>)>>),
      LTable(OneField("err", LString(<<"f">>)), <<LString(<<"g">>)>>) }

\* string keys that do not make the table an error or a status
TblFields ==
    { NoFields, OneField("err", LNumber(One)),
      OneField("ok", LTable(NoFields, <<>>)),
      [f \in {"err", "ok"} |-> LBoolean(TRUE)],
      OneField("x", LString(<<"err">>)) }

TableSample ==
    UNION { {LTable(h, a) : h \in TblFields, a \in [1..n -> TblElems]} :
            n \in 0..MaxTblLen }

TableInit ==
    /\ mpc = "lua"
    /\ mreply = ReplyNil
    /\ mlua \in TableSample
    /\ mback = ReplyNil

TableNext == ToWireReply

----------------------------------------------------------------------------
(* C18 *)

\* a table with neither a string err nor a string ok field
PlainTable(v) ==
    /\ v.t = "table"
    /\ GetField(v, "err").t # "string"
    /\ GetField(v, "ok").t # "string"

\* every key 1..k of the table holds a value
FilledTo(v, k) == \A i \in 1..k : i \in DOMAIN v.a /\ v.a[i].t # "nil"

\* the largest k such that every key 1..k holds a value
Boundary(v) == CHOOSE k \in 0..Len(v.a) :
                  /\ FilledTo(v, k)
                  /\ \A m \in 0..Len(v.a) : FilledTo(v, m) => m <= k

\* r is the Array the policy gives for the plain table v, at every depth
RECURSIVE FollowsPolicy(_, _)
FollowsPolicy(v, r) ==
    IF PlainTable(v)
    THEN /\ r.type = "ARRAY"
         /\ Len(r.elements) = Boundary(v)
         /\ \A i \in 1..Boundary(v) : FollowsPolicy(v.a[i], r.elements[i])
    ELSE r = luaReplyToRedisReply(v)

\* C18: a table with neither a string err nor a string ok field becomes an
\* Array of the converted values at the keys 1..k, in order, k being the
\* largest index with every key 1..k holding a value; what follows the
\* first missing key is dropped, an empty table gives an empty Array, and
\* nested tables follow the same rule.
C18_ArrayBoundary ==
    (mpc = "back" /\ PlainTable(mlua))
        => /\ FollowsPolicy(mlua, mback)
           /\ mlua.a = <<>> => mback = ReplyArray(<<>>)
           /\ \A i \in 1..Len(mback.elements) :
                 ~PlainTable(mlua.a[i]) => mback.elements[i] = luaReplyToRedisReply(mlua.a[i])

\* C18's case: a converted table with a value, a hole and a value after
\* the hole, whose first value is a table with a hole of its own
C18_Witness ==
    /\ mpc = "back" /\ PlainTable(mlua)
    /\ Len(mlua.a) = MaxTblLen
    /\ PlainTable(mlua.a[1]) /\ Boundary(mlua.a[1]) < Len(mlua.a[1].a)
    /\ mlua.a[2].t = "nil" /\ mlua.a[3].t # "nil"
    /\ Len(mback.elements) = 1
    /\ Len(mback.elements[1].elements) = Boundary(mlua.a[1])

----------------------------------------------------------------------------
(* C10 *)

\* A reply the round trip is meant for: no Status or Error payload, at any
\* depth, holds a CR LF pair or a NUL byte, and every Integer fits the 53-bit
\* significand of a double.
RECURSIVE HasCRLF(_)
HasCRLF(s) ==
    /\ Len(s) >= 2
    /\ \/ s[1] = "CR" /\ s[2] = "LF"
       \/ HasCRLF(Tail(s))

HasNUL(s) == \E k \in 1..Len(s) : s[k] = "NUL"

FitsDouble(i) ==
    i.bits = {} \/ \A p \in i.bits : Max(i.bits) - p < MantBits

RECURSIVE LineSafe(_)
LineSafe(r) ==
    CASE r.type \in {"STATUS", "ERROR"} -> ~HasCRLF(r.str) /\ ~HasNUL(r.str)
      [] r.type = "INTEGER" -> FitsDouble(r.integer)
      [] r.type = "ARRAY"   -> \A j \in 1..Len(r.elements) : LineSafe(r.elements[j])
      [] OTHER -> TRUE

\* C10 as stated: every reply that is not an Integer comes back from
\* redisProtocolToLuaType followed by luaReplyToRedisReply equal to itself
\* in kind and payload.
C10_RoundTripAll ==
    (mpc = "back" /\ mreply.type # "INTEGER") => mback = mreply

\* C10 as amended: the round trip reproduces every non-Integer reply whose
\* Status and Error payloads hold no CR LF pair and no NUL byte and whose
\* Integer elements fit a double's 53-bit significand; arrays keep their
\* order, length and nesting depth.
C10_RoundTripLineSafe ==
    (mpc = "back" /\ mreply.type # "INTEGER" /\ LineSafe(mreply))
        => /\ mback = mreply
           /\ Depth(mback) = Depth(mreply)

\* C10's case: a nested array holding a Nil and a Status has made the trip.
C10_Witness ==
    /\ mpc = "back"
    /\ LineSafe(mreply)
    /\ Depth(mreply) >= 2
    /\ Len(mreply.elements) = 2
    /\ mreply.elements[1] = ReplyNil
    /\ \E j \in 1..Len(mreply.elements[2].elements) :
            mreply.elements[2].elements[j].type = "STATUS"
    /\ mback = mreply

----------------------------------------------------------------------------
(* SpecSandbox: the metatable scriptingEnableGlobalsProtection sets on _G  *)

\* What Init leaves bound (the libraries, redis, ardb, the error handler).
InitGlobals == {"redis", "ardb", "math", "__redis__err__handler"}
FrameworkNames == {"KEYS", "ARGV"}
FunctionNames  == {"f_1"}
ScriptNames    == {"x", "y"}
GlobalNames == InitGlobals \cup FrameworkNames \cup FunctionNames \cup ScriptNames

\* debug.getinfo(2, "S").what of the code touching the global: "Lua" for
\* the body of a function (a script body is the body of f_<sha1>), "main"
\* for the top level of a chunk (the chunk CreateLuaFunction runs, or one a
\* script compiles with loadstring, which LoadLibs leaves in place), "C" for
\* a C function, "none" when debug.getinfo(2) is nil (the host calling
\* lua_setglobal / lua_getglobal with no Lua function running).
ScriptWhats == {"Lua", "main"}

NoAccess == [op |-> "none", n |-> "", w |-> "none", was |-> {}, mt |-> TRUE,
             err |-> <<>>, val |-> "none"]

\* mt.__newindex = function (t, n, v) with the Lua bar lifted
mt__newindex_NoCheck(Gs, n, w) ==
    [G |-> Gs \cup {n}, err |-> <<>>]

\* mt.__newindex = function (t, n, v)
mt__newindex(Gs, n, w) ==
    IF w # "none" /\ w # "main" /\ w # "C"
    THEN [G |-> Gs,
          err |-> <<"Script attempted to create global variable '", n, "'">>]
    ELSE [G |-> Gs \cup {n}, err |-> <<>>]

\* mt.__index = function (t, n)
mt__index(Gs, n, w) ==
    IF w # "none" /\ w # "C"
    THEN [val |-> "none",
          err |-> <<"Script attempted to access unexisting global variable '", n, "'">>]
    ELSE [val |-> "nil", err |-> <<>>]

\* an assignment to _G[n]: the metamethod, when _G has one, runs only for
\* an absent key
SetGlobal(Gs, mt, n, w) ==
    IF n \in Gs THEN [G |-> Gs, err |-> <<>>]
    ELSE IF mt THEN mt__newindex(Gs, n, w)
    ELSE [G |-> Gs \cup {n}, err |-> <<>>]

\* a read of _G[n]
GetGlobal(Gs, mt, n, w) ==
    IF n \in Gs THEN [val |-> "bound", err |-> <<>>]
    ELSE IF mt THEN mt__index(Gs, n, w)
    ELSE [val |-> "nil", err |-> <<>>]

\* script code assigns the global n
SbAssign(n, w) ==
    /\ G' = SetGlobal(G, gmt, n, w).G
    /\ gmt' = gmt
    /\ gres' = [op |-> "assign", n |-> n, w |-> w, was |-> G, mt |-> gmt,
                err |-> SetGlobal(G, gmt, n, w).err, val |-> "none"]
    /\ UNCHANGED <<mvars, bvars, svars>>

\* script code reads the global n
SbRead(n, w) ==
    /\ UNCHANGED <<G, gmt>>
    /\ gres' = [op |-> "read", n |-> n, w |-> w, was |-> G, mt |-> gmt,
                err |-> GetGlobal(G, gmt, n, w).err, val |-> GetGlobal(G, gmt, n, w).val]
    /\ UNCHANGED <<mvars, bvars, svars>>

\* luaSetGlobalArray: Eval binds KEYS and ARGV from the host
SbBind(n) ==
    /\ G' = SetGlobal(G, gmt, n, "none").G
    /\ gmt' = gmt
    /\ gres' = [op |-> "bind", n |-> n, w |-> "none", was |-> G, mt |-> gmt,
                err |-> SetGlobal(G, gmt, n, "none").err, val |-> "none"]
    /\ UNCHANGED <<mvars, bvars, svars>>

\* CreateLuaFunction runs the chunk "function f_<sha1>() ... end"
SbDefine(f) ==
    /\ G' = SetGlobal(G, gmt, f, "main").G
    /\ gmt' = gmt
    /\ gres' = [op |-> "define", n |-> f, w |-> "main", was |-> G, mt |-> gmt,
                err |-> SetGlobal(G, gmt, f, "main").err, val |-> "none"]
    /\ UNCHANGED <<mvars, bvars, svars>>

\* script code calls setmetatable(_G, nil), which luaopen_base provides and
\* the metatable, having no __metatable field, does not refuse
SbSetMetatable ==
    /\ gmt
    /\ gmt' = FALSE
    /\ gres' = [op |-> "setmetatable", n |-> "", w |-> "Lua", was |-> G,
                mt |-> gmt, err |-> <<>>, val |-> "none"]
    /\ UNCHANGED <<G, mvars, bvars, svars>>

\* Reset: lua_close and Init again
SbReset ==
    /\ G' = InitGlobals
    /\ gmt' = TRUE
    /\ gres' = NoAccess
    /\ UNCHANGED <<mvars, bvars, svars>>

SandboxNext ==
    \/ \E n \in GlobalNames, w \in ScriptWhats : SbAssign(n, w)
    \/ \E n \in GlobalNames, w \in ScriptWhats : SbRead(n, w)
    \/ \E n \in FrameworkNames : SbBind(n)
    \/ \E f \in FunctionNames : SbDefine(f)
    \/ SbSetMetatable
    \/ SbReset

----------------------------------------------------------------------------
(* C9 *)

----------------------------------------------------------------------------
(* The command bridge: redis.call / redis.pcall                            *)

\* luaPushError: the table {err = "<source>: <line>: <error>"}; inside a
\* run lua_getstack(lua, 1) finds the calling script function.
luaPushError(error) ==
    LTable(OneField("err", LString(<<"@user_script: 1: ">> \o error)), <<>>)

\* lower_string on a command name
lower_string(tok) ==
    CASE tok = "SET" -> "set"
      [] tok = "GET" -> "get"
      [] tok = "SCRIPT" -> "script"
      [] OTHER -> tok

\* FindRedisCommandHandlerSetting: the registered commands and their flags
CommandTable ==
    [c \in {"set", "get", "incr", "script"} |->
        [noscript |-> (c = "script")]]

\* lua_isstring: strings and numbers
lua_isstring(v) == v.t \in {"string", "number"}

\* the index j at which the argument loop of CallArdb stops
RECURSIVE ArgsTaken(_, _)
ArgsTaken(args, j) ==
    IF j < Len(args) /\ lua_isstring(args[j + 1])
    THEN ArgsTaken(args, j + 1) ELSE j

\* the command name of an argument vector whose entries are all strings
CommandOf(args) ==
    IF args[1].t = "string" /\ Len(args[1].s) = 1
    THEN lower_string(args[1].s[1]) ELSE "?"

\* CallArdb without the lua_error of lines 405-413: an Error reply is always
\* handed back as a table
CallArdb_NeverRaise(args, raise_error, reply) ==
    IF Len(args) = 0
    THEN [ret |-> 1, raised |-> FALSE, exec |-> FALSE,
          top |-> luaPushError(<<"Please specify at least one argument for redis.call()">>)]
    ELSE IF ArgsTaken(args, 0) # Len(args)
    THEN [ret |-> 1, raised |-> FALSE, exec |-> FALSE,
          top |-> luaPushError(<<"Lua redis() command arguments must be strings or integers">>)]
    ELSE IF CommandOf(args) \notin DOMAIN CommandTable
    THEN [ret |-> -1, raised |-> FALSE, exec |-> FALSE,
          top |-> luaPushError(<<"Unknown Redis command called from Lua script">>)]
    ELSE IF CommandTable[CommandOf(args)].noscript
    THEN [ret |-> -1, raised |-> FALSE, exec |-> FALSE,
          top |-> luaPushError(<<"This Redis command is not allowed from scripts">>)]
    ELSE [ret |-> 1, raised |-> FALSE, exec |-> TRUE,
          top |-> redisProtocolToLuaType(reply)]

\* What one call of CallArdb does.  reply is what ProcessRedisCommand would
\* capture.  ret is the C function's return value; raised says it left
\* through lua_error instead; exec says ProcessRedisCommand was invoked;
\* top is the value it left on top of the stack.
CallArdb(args, raise_error, reply) ==
    IF Len(args) = 0
    THEN [ret |-> 1, raised |-> FALSE, exec |-> FALSE,
          top |-> luaPushError(<<"Please specify at least one argument for redis.call()">>)]
    ELSE IF ArgsTaken(args, 0) # Len(args)
    THEN [ret |-> 1, raised |-> FALSE, exec |-> FALSE,
          top |-> luaPushError(<<"Lua redis() command arguments must be strings or integers">>)]
    ELSE IF CommandOf(args) \notin DOMAIN CommandTable
    THEN [ret |-> -1, raised |-> FALSE, exec |-> FALSE,
          top |-> luaPushError(<<"Unknown Redis command called from Lua script">>)]
    ELSE IF CommandTable[CommandOf(args)].noscript
    THEN [ret |-> -1, raised |-> FALSE, exec |-> FALSE,
          top |-> luaPushError(<<"This Redis command is not allowed from scripts">>)]
    ELSE IF raise_error /\ reply.type = "ERROR"
    THEN [ret |-> 0, raised |-> TRUE, exec |-> TRUE,
          top |-> GetField(redisProtocolToLuaType(reply), "err")]
    ELSE [ret |-> 1, raised |-> FALSE, exec |-> TRUE,
          top |-> redisProtocolToLuaType(reply)]

\* PCall: CallArdb(lua, true);  Call: CallArdb(lua, false)
PCall(args, reply) == CallArdb(args, TRUE, reply)
Call(args, reply)  == CallArdb(args, FALSE, reply)

----------------------------------------------------------------------------
(* SpecBridge: one bridge call                                             *)

MaxArgs == 2        \* longest argument list drawn

ArgVals == { LString(<<"set">>), LString(<<"SET">>), LString(<<"get">>),
             LString(<<"nosuchcmd">>), LString(<<"script">>),
             LNumber(One), LBoolean(TRUE), LTable(NoFields, <<>>), LNil }

ArgLists == UNION { [1..n -> ArgVals] : n \in 0..MaxArgs }

\* the replies ProcessRedisCommand may capture
ExecReplies == { ReplyStatus(<<"OK">>), ReplyNil,
                 ReplyError(<<"ERR wrong number of arguments">>) }

NoOutcome == [ret |-> 0, raised |-> FALSE, exec |-> FALSE, top |-> LNil]

BridgeInit ==
    /\ bpc = "call"
    /\ bargs \in ArgLists
    /\ braise \in BOOLEAN
    /\ bout = NoOutcome
    /\ bexec = 0

\* redis.pcall(...) of the script: the entry point with raise_error
BridgePCall ==
    /\ bpc = "call" /\ braise
    /\ \E reply \in ExecReplies :
        /\ bout' = PCall(bargs, reply)
        /\ bexec' = bexec + (IF PCall(bargs, reply).exec THEN 1 ELSE 0)
    /\ bpc' = "done"
    /\ UNCHANGED <<bargs, braise, mvars, gvars, svars>>

\* redis.call(...) of the script: the entry point without
BridgeCall ==
    /\ bpc = "call" /\ ~braise
    /\ \E reply \in ExecReplies :
        /\ bout' = Call(bargs, reply)
        /\ bexec' = bexec + (IF Call(bargs, reply).exec THEN 1 ELSE 0)
    /\ bpc' = "done"
    /\ UNCHANGED <<bargs, braise, mvars, gvars, svars>>

BridgeNext == BridgePCall \/ BridgeCall

----------------------------------------------------------------------------
(* C7 *)

\* the calls C7 is about
Gated(args) ==
    \/ Len(args) = 0
    \/ \E k \in 1..Len(args) : args[k].t \notin {"string", "number"}
    \/ CommandOf(args) \notin DOMAIN CommandTable
    \/ CommandTable[CommandOf(args)].noscript

\* C7 as stated: a bridge call with no arguments, with an argument that is
\* neither string nor number, or naming an unregistered or no-script
\* command raises an error to the script, and ProcessRedisCommand is never
\* invoked.
C7_GatedCallRaises ==
    (bpc = "done" /\ Gated(bargs)) => (bout.raised /\ bexec = 0)

\* The part of C7 the code keeps: a gated call never reaches
\* ProcessRedisCommand and leaves an {err = ...} table on the stack.
C7_GatedCallNotExecuted ==
    (bpc = "done" /\ Gated(bargs))
        => /\ bexec = 0 /\ ~bout.exec
           /\ GetField(bout.top, "err").t = "string"

----------------------------------------------------------------------------
(* The server: worker threads, script store, interpreters, RunContexts     *)

NThreads == 2       \* worker threads; each serves one scripting connection
MaxOps == 3         \* client commands taken in one behaviour

Threads == 1..NThreads

DigestLen == 40     \* the length Eval demands of an EVALSHA argument
RandMod == 16       \* the generator state is kept modulo 2^4

\* the script bodies clients send, and the empty body
Bodies == {"set2", "rnd2", "bad"}

\* the bodies a single connection is tried with:
\*   perr    redis.pcall('incr','k')  redis.call('set','k','1')
\*   cerr    redis.call('incr','k')   return redis.call('set','k','1')
\*   unk     return redis.call('nosuchcmd')
\*   raise   error('a\r\nb')
\*   rettab  return {err = 'a\r\nb'}
\*   pok     return redis.pcall('set','k','1')
\*   inj     end error('x') function g()
\*   loop    while true do end
RunBodies == {"set2", "bad", "perr", "cerr", "pok", "unk", "raise", "rettab", "inj"}

LoopBodies == {"loop", "loop2"}

\* luaL_loadbuffer of "function f_<sha1>() <body> end" succeeds
Compiles(body) == body # "bad"

\* lua_pcall of the compiled chunk succeeds; the chunk of "inj" defines
\* f_<sha1> with nothing in it and then raises
ChunkRuns(body) == body # "inj"

\* sha1_sum: 40 hex characters determined by the body
HexOf(body) ==
    CASE body = "set2" -> "a"
      [] body = "rnd2" -> "b"
      [] body = "bad"  -> "c"
      [] body = "perr" -> "e"
      [] body = "cerr" -> "f"
      [] body = "unk"  -> "1"
      [] body = "raise" -> "2"
      [] body = "rettab" -> "3"
      [] body = "inj"  -> "4"
      [] body = "loop" -> "5"
      [] body = "loop2" -> "6"
      [] body = "pok"  -> "7"
      [] OTHER         -> "d"

sha1_sum(body) == [i \in 1..DigestLen |-> HexOf(body)]

\* the bodies whose functions can come to exist, and their digests
Digests == {sha1_sum(b) : b \in {"set2", "rnd2"}}

AllDigests == {sha1_sum(b) : b \in Bodies \cup RunBodies \cup LoopBodies}

\* an EVALSHA argument one character short
ShortArg == [i \in 1..(DigestLen - 1) |-> "a"]

ShaArgs == Digests \cup {ShortArg}

\* funcname = "f_" + digest
FuncName(d) == <<"f", "_">> \o d

FuncNames == {FuncName(d) : d \in AllDigests}

\* what the script of a body does, statement by statement
Program(body) ==
    CASE body = "set2" ->
            << [op |-> "call", args |-> <<LString(<<"set">>), LString(<<"k">>), LString(<<"1">>)>>],
               [op |-> "call", args |-> <<LString(<<"set">>), LString(<<"k">>), LString(<<"2">>)>>] >>
      [] body = "rnd2" ->
            << [op |-> "random", args |-> <<>>], [op |-> "random", args |-> <<>>] >>
      [] body = "perr" ->
            << [op |-> "pcall", args |-> <<LString(<<"incr">>), LString(<<"k">>)>>],
               [op |-> "call", args |-> <<LString(<<"set">>), LString(<<"k">>), LString(<<"1">>)>>] >>
      [] body = "cerr" ->
            << [op |-> "call", args |-> <<LString(<<"incr">>), LString(<<"k">>)>>],
               [op |-> "call", args |-> <<LString(<<"set">>), LString(<<"k">>), LString(<<"1">>)>>] >>
      [] body = "pok" ->
            << [op |-> "pcall", args |-> <<LString(<<"set">>), LString(<<"k">>), LString(<<"1">>)>>] >>
      [] body = "unk" ->
            << [op |-> "call", args |-> <<LString(<<"nosuchcmd">>)>>] >>
      [] body = "raise" ->
            << [op |-> "error", args |-> <<LString(<<"a", "CR", "LF", "b">>)>>] >>
      [] body = "rettab" ->
            << [op |-> "value",
                args |-> <<LTable(OneField("err", LString(<<"a", "CR", "LF", "b">>)), <<>>)>>] >>
      [] body \in LoopBodies ->
            << [op |-> "loop", args |-> <<>>] >>
      [] OTHER -> <<>>

\* the script ends with "return <the last value>"
ReturnsLast(body) == body \in {"set2", "cerr", "pok", "unk", "rettab"}

\* ProcessRedisCommand on the fake connection: the reply it captures; the
\* key holds a string, so incr fails
ProcessRedisCommand(args) ==
    IF CommandOf(args) = "incr"
    THEN ReplyError(<<"ERR value is not an integer or out of range">>)
    ELSE ReplyStatus(<<"OK">>)

\* the script store of m_db
NoRecord == "no record"
NotDefined == "nil"

SaveScript(S, name, body) == [S EXCEPT ![name] = body]

\* GetScript: 0 and the body when a record exists, -1 otherwise
GetScript(S, name) ==
    IF S[name] # NoRecord THEN [rc |-> 0, body |-> S[name]]
    ELSE [rc |-> -1, body |-> ""]

FlushScripts(S) == [name \in DOMAIN S |-> NoRecord]

\* redisSrand48 / redisLrand48: the low four bits of the 48-bit
\* linear congruential generator x' = 0x5DEECE66D * x + 0xB, seeded with
\* (seed << 16) + 0x330E
redisSrand48(seedval) == (seedval * 65536 + 13070) % RandMod

redisLrand48(x) == (13 * x + 11) % RandMod

\* tolower / strcasecmp on the characters kill names are made of
tolower(c) ==
    CASE c = "A" -> "a"
      [] c = "B" -> "b"
      [] c = "L" -> "l"
      [] OTHER -> c

strcasecmp(a, b) ==
    IF Len(a) = Len(b) /\ \A i \in 1..Len(a) : tolower(a[i]) = tolower(b[i])
    THEN 0 ELSE 1

\* the names SCRIPT KILL is called with
KillAll == <<"a", "l", "l">>
KillNames == Digests \cup {KillAll, [i \in 1..DigestLen |-> "A"]}

NULL == <<>>

NoScriptReply == ReplyError(<<"-NOSCRIPT No matching script. Please use EVAL.">>)

NoRun == [id |-> 0, body |-> "", ip |-> 0, st |-> "go", last |-> LNil,
          closed |-> FALSE, base |-> 0]

NoReply == [op |-> "none", func |-> <<>>, rc |-> 0, r |-> ReplyNil, ran |-> "none"]

EmptyContext == [lua_executing_func |-> NULL, lua_timeout |-> FALSE, lua_kill |-> FALSE]

\* __redis__err__handler: source, line and the error
ErrHandler(err) == <<"@user_script", ":", "1", ": ">> \o err

\* CreateLuaFunction_FailIfDefined: refuses a name that is already defined
CreateLuaFunction_FailIfDefined(L, S, funcname, body) ==
    IF ~Compiles(body) \/ L[funcname] # NotDefined
    THEN [rc |-> -1, lua |-> L, store |-> S,
          err |-> <<"Error compiling script (new function): ", "user_script:1: syntax error", "LF">>]
    ELSE IF ~ChunkRuns(body)
    THEN [rc |-> -1, lua |-> [L EXCEPT ![funcname] = ""], store |-> S,
          err |-> <<"Error running script (new function): ", "user_script:1: x", "LF">>]
    ELSE [rc |-> 0, lua |-> [L EXCEPT ![funcname] = body],
          store |-> SaveScript(S, funcname, body), err |-> <<>>]

\* CreateLuaFunction on the interpreter L and the store S
CreateLuaFunction(L, S, funcname, body) ==
    IF ~Compiles(body)
    THEN [rc |-> -1, lua |-> L, store |-> S,
          err |-> <<"Error compiling script (new function): ", "user_script:1: syntax error", "LF">>]
    ELSE IF ~ChunkRuns(body)
    THEN [rc |-> -1, lua |-> [L EXCEPT ![funcname] = ""], store |-> S,
          err |-> <<"Error running script (new function): ", "user_script:1: x", "LF">>]
    ELSE [rc |-> 0, lua |-> [L EXCEPT ![funcname] = body],
          store |-> SaveScript(S, funcname, body), err |-> <<>>]

\* thread t is in its I/O loop: between commands, or inside Continue()
Serving(t) == ~crashed /\ pc[t] \in {"idle", "yield"} /\ ops < MaxOps

ServerInit ==
    /\ lua_time_limit \in {0, 5000}
    /\ store = [n \in FuncNames |-> NoRecord]
    /\ lua = [t \in Threads |-> [n \in FuncNames |-> NotDefined]]
    /\ ctx = [t \in Threads |-> EmptyContext]
    /\ hook = [t \in Threads |-> FALSE]
    /\ pc = [t \in Threads |-> "idle"]
    /\ run = [t \in Threads |-> NoRun]
    /\ m_killing_func = <<>>
    /\ events = [t \in Threads |-> <<>>]
    /\ db = <<>>
    /\ rng = 0
    /\ draws = [t \in Threads |-> <<>>]
    /\ result = [t \in Threads |-> NoReply]
    /\ ops = 0
    /\ crashed = FALSE
    /\ loaded = {}
    /\ live = {}
    /\ heard = [t \in Threads |-> FALSE]
    /\ stacktop = [t \in Threads |-> 0]
    /\ flushed = {}

\* Eval up to the lua_pcall of the function: reseed, name, look up or
\* define, install the hook, fill the RunContext
Eval(t, func, isSHA1Func) ==
    /\ ~crashed /\ pc[t] = "idle" /\ ops < MaxOps
    /\ ops' = ops + 1
    /\ rng' = redisSrand48(0)
    /\ UNCHANGED <<lua_time_limit, m_killing_func, events, db, crashed>>
    /\ LET digest == IF isSHA1Func THEN func ELSE sha1_sum(func)
           op == IF isSHA1Func THEN "evalsha" ELSE "eval"
           reject(str) ==
               /\ result' = [result EXCEPT ![t] =
                      [op |-> op, func |-> digest, rc |-> -1, r |-> ReplyError(str), ran |-> "none"]]
               /\ UNCHANGED <<store, lua, ctx, hook, pc, run, draws, stacktop,
                              loaded, live, flushed, heard>>
       IN
       IF isSHA1Func /\ Len(func) # DigestLen
       THEN reject(NoScriptReply.str)
       ELSE
         LET funcname == FuncName(digest)
             defined == lua[t][funcname] # NotDefined
             cached == GetScript(store, funcname)
         IN
         IF ~defined /\ isSHA1Func /\ cached.rc = 0    \* !GetScript(...)
         THEN reject(NoScriptReply.str)
         ELSE
           LET body == IF isSHA1Func THEN cached.body ELSE func
               c == IF defined
                    THEN [rc |-> 0, lua |-> lua[t], store |-> store, err |-> <<>>]
                    ELSE CreateLuaFunction(lua[t], store, funcname, body)
           IN
           IF c.rc # 0
           THEN /\ result' = [result EXCEPT ![t] =
                       [op |-> op, func |-> digest, rc |-> -1, r |-> ReplyError(c.err),
                        ran |-> "none"]]
                /\ lua' = [lua EXCEPT ![t] = c.lua]
                /\ UNCHANGED <<store, ctx, hook, pc, run, draws, stacktop,
                               loaded, live, flushed, heard>>
           ELSE
             /\ lua' = [lua EXCEPT ![t] = c.lua]
             /\ store' = c.store
             /\ hook' = [hook EXCEPT ![t] = IF lua_time_limit > 0 THEN TRUE ELSE @]
             /\ ctx' = [ctx EXCEPT ![t].lua_executing_func = digest,
                                   ![t].lua_kill = FALSE]
             /\ pc' = [pc EXCEPT ![t] = "run"]
             /\ run' = [run EXCEPT ![t] =
                    [id |-> ops + 1, body |-> c.lua[funcname], ip |-> 1,
                     st |-> "go", last |-> LNil, closed |-> FALSE,
                     base |-> stacktop[t]]]
             \* the error handler and the function are on the stack
             /\ stacktop' = [stacktop EXCEPT ![t] = @ + 2]
             /\ draws' = [draws EXCEPT ![t] = <<>>]
             /\ result' = [result EXCEPT ![t] =
                    [op |-> op, func |-> digest, rc |-> 0, r |-> ReplyNil,
                     ran |-> c.lua[funcname]]]
             \* an EVAL that finds the function defined defines nothing
             /\ loaded' = IF isSHA1Func \/ defined THEN loaded ELSE loaded \cup {digest}
             /\ live' = IF isSHA1Func THEN live ELSE live \cup {digest}
             /\ flushed' = IF isSHA1Func THEN flushed ELSE flushed \ {digest}
             /\ heard' = [heard EXCEPT ![t] = FALSE]
    /\ UNCHANGED <<mvars, gvars, bvars>>

\* the EVAL command: Eval(body, keys, args, false, reply)
EVAL(t, body) == Eval(t, body, FALSE)

\* the EVALSHA command: Eval(sha, keys, args, true, reply)
EVALSHA(t, sha) == Eval(t, sha, TRUE)

\* the running function executes its next statement
Step(t) ==
    /\ ~crashed /\ pc[t] = "run" /\ run[t].st = "go"
    /\ run[t].ip <= Len(Program(run[t].body))
    /\ LET ins == Program(run[t].body)[run[t].ip] IN
       IF ins.op \in {"call", "pcall"}
       THEN LET out == IF ins.op = "call"
                       THEN Call(ins.args, ProcessRedisCommand(ins.args))
                       ELSE PCall(ins.args, ProcessRedisCommand(ins.args)) IN
            /\ db' = IF out.exec THEN Append(db, [thr |-> t, id |-> run[t].id]) ELSE db
            /\ run' = [run EXCEPT
                   ![t].ip = @ + 1,
                   ![t].st = IF out.raised THEN "error"
                             ELSE IF out.ret < 0 THEN "stop" ELSE "go",
                   ![t].last = IF out.raised THEN LString(ErrHandler(out.top.s))
                               ELSE out.top]
            \* a negative return leaves the frames of the function and of
            \* the C call, its arguments and the error table where they are
            /\ stacktop' = IF ~out.raised /\ out.ret < 0
                           THEN [stacktop EXCEPT ![t] = @ + 1 + Len(ins.args) + 1]
                           ELSE stacktop
            /\ UNCHANGED <<rng, draws>>
       ELSE IF ins.op = "random"
       THEN \* math.random()
            /\ rng' = redisLrand48(rng)
            /\ draws' = [draws EXCEPT ![t] = Append(@, redisLrand48(rng))]
            /\ run' = [run EXCEPT ![t].ip = @ + 1]
            /\ UNCHANGED <<db, stacktop>>
       ELSE IF ins.op = "error"
       THEN \* error(msg)
            /\ run' = [run EXCEPT ![t].st = "error",
                                  ![t].last = LString(ErrHandler(ins.args[1].s))]
            /\ UNCHANGED <<db, stacktop, rng, draws>>
       ELSE IF ins.op = "value"
       THEN \* a value is built
            /\ run' = [run EXCEPT ![t].ip = @ + 1, ![t].last = ins.args[1]]
            /\ UNCHANGED <<db, stacktop, rng, draws>>
       ELSE \* one more turn of a loop that does not end
            UNCHANGED <<run, db, stacktop, rng, draws>>
    /\ UNCHANGED <<lua_time_limit, store, lua, ctx, hook, pc, m_killing_func,
                   events, result, ops, crashed, loaded, live, flushed, heard>>
    /\ UNCHANGED <<mvars, gvars, bvars>>

\* lua_error(lua) out of the hook, through the error handler
RaiseKilled(t) ==
    [run EXCEPT ![t].st = "error",
                ![t].last = LString(ErrHandler(<<"Script killed by user with SCRIPT KILL...">>))]

\* MaskCountHook called by an interpreter on which Eval did not install it
MaskCountHook_Uninstalled(t) ==
    /\ ~crashed /\ pc[t] = "run" /\ run[t].st = "go"
    /\ \E over \in BOOLEAN :
        LET timeout == ctx[t].lua_timeout \/ over IN
        /\ ctx' = [ctx EXCEPT ![t].lua_timeout = timeout]
        /\ IF timeout
           THEN pc' = [pc EXCEPT ![t] = "yield"] /\ run' = run
           ELSE /\ pc' = pc
                /\ run' = IF ctx[t].lua_kill THEN RaiseKilled(t) ELSE run
    /\ UNCHANGED <<lua_time_limit, store, lua, hook, m_killing_func, events, db,
                   rng, draws, result, ops, crashed, stacktop, loaded, live,
                   flushed, heard>>
    /\ UNCHANGED <<mvars, gvars, bvars>>

\* MaskCountHook up to its call of Continue(); over says that elapsed has
\* reached lua_time_limit
MaskCountHook(t) ==
    /\ ~crashed /\ pc[t] = "run" /\ run[t].st = "go" /\ hook[t]
    /\ \E over \in BOOLEAN :
        LET timeout == ctx[t].lua_timeout \/ over IN
        /\ ctx' = [ctx EXCEPT ![t].lua_timeout = timeout]
        /\ IF timeout
           THEN pc' = [pc EXCEPT ![t] = "yield"] /\ run' = run
           ELSE /\ pc' = pc
                /\ run' = IF ctx[t].lua_kill THEN RaiseKilled(t) ELSE run
    /\ UNCHANGED <<lua_time_limit, store, lua, hook, m_killing_func, events, db,
                   rng, draws, result, ops, crashed, stacktop, loaded, live,
                   flushed, heard>>
    /\ UNCHANGED <<mvars, gvars, bvars>>

\* Continue() returns into MaskCountHook, which looks at lua_kill
Continue(t) ==
    /\ ~crashed /\ pc[t] = "yield"
    /\ pc' = [pc EXCEPT ![t] = "run"]
    /\ run' = IF ctx[t].lua_kill THEN RaiseKilled(t) ELSE run
    /\ UNCHANGED <<lua_time_limit, store, lua, ctx, hook, m_killing_func, events,
                   db, rng, draws, result, ops, crashed, stacktop, loaded, live,
                   flushed, heard>>
    /\ UNCHANGED <<mvars, gvars, bvars>>

\* a run goes on in an interpreter that Reset has closed under it
UseAfterClose(t) ==
    /\ ~crashed /\ pc[t] # "idle" /\ run[t].closed
    /\ crashed' = TRUE
    /\ UNCHANGED <<lua_time_limit, store, lua, ctx, hook, pc, run, m_killing_func,
                   events, db, rng, draws, result, ops, stacktop, loaded, live,
                   flushed, heard>>
    /\ UNCHANGED <<mvars, gvars, bvars>>

\* Eval from the return of lua_pcall to its own return
Return(t) ==
    /\ ~crashed /\ pc[t] = "run"
    /\ run[t].st # "go" \/ run[t].ip > Len(Program(run[t].body))
    /\ ctx' = [ctx EXCEPT ![t].lua_executing_func = NULL,
                          ![t].lua_timeout = FALSE]
    /\ hook' = [hook EXCEPT ![t] = IF lua_time_limit > 0 THEN FALSE ELSE @]
    /\ LET top == IF run[t].st # "go" \/ ReturnsLast(run[t].body)
                  THEN run[t].last ELSE LNil
           r == IF run[t].st = "error"
                THEN ReplyError(<<"Error running script (call to ">>
                                \o FuncName(result[t].func) \o <<"): ">>
                                \o CStr(top.s) \o <<"LF">>)
                ELSE luaReplyToRedisReply(top)
       IN \E got \in (IF run[t].closed THEN {r, ReplyNil} ELSE {r}) :
             result' = [result EXCEPT ![t].r = got]
    \* an error unwinds lua_pcall to the function's slot, which then holds
    \* the message; either way Eval pops the one value and the handler
    /\ stacktop' = [stacktop EXCEPT ![t] =
           IF run[t].st = "error" /\ ~run[t].closed
           THEN run[t].base ELSE @ - 2]
    /\ pc' = [pc EXCEPT ![t] = "idle"]
    /\ run' = [run EXCEPT ![t] = NoRun]
    /\ UNCHANGED <<lua_time_limit, store, lua, m_killing_func, events, db, rng,
                   draws, ops, crashed, loaded, live, flushed, heard>>
    /\ UNCHANGED <<mvars, gvars, bvars>>

\* FireUserEvent: the event reaches every worker thread's queue
FireUserEvent(ev) == [t \in Threads |-> Append(events[t], ev)]

\* Reset: lua_close and Init
Reset(L) == [n \in DOMAIN L |-> NotDefined]

\* ScriptEventCallback on thread t, for the oldest event waiting there
ScriptEventCallback(t) ==
    /\ ~crashed /\ pc[t] \in {"idle", "yield"} /\ events[t] # <<>>
    /\ events' = [events EXCEPT ![t] = Tail(@)]
    /\ IF Head(events[t]) = "flush"
       THEN /\ lua' = [lua EXCEPT ![t] = Reset(@)]
            /\ hook' = [hook EXCEPT ![t] = FALSE]
            /\ run' = [run EXCEPT ![t].closed = (pc[t] = "yield")]
            /\ store' = FlushScripts(store)
            /\ live' = {}
            /\ ctx' = ctx
            /\ stacktop' = [stacktop EXCEPT ![t] = 0]
       ELSE /\ ctx' = IF /\ ctx[t].lua_executing_func # NULL
                         /\ \/ strcasecmp(m_killing_func, KillAll) = 0
                            \/ strcasecmp(m_killing_func, ctx[t].lua_executing_func) = 0
                      THEN [ctx EXCEPT ![t].lua_kill = TRUE]
                      ELSE ctx
            /\ UNCHANGED <<lua, hook, run, store, live, stacktop>>
    /\ UNCHANGED <<lua_time_limit, pc, m_killing_func, db, rng, draws, result,
                   ops, crashed, loaded, flushed, heard>>
    /\ UNCHANGED <<mvars, gvars, bvars>>

\* SCRIPT FLUSH
Flush(t) ==
    /\ Serving(t)
    /\ ops' = ops + 1
    /\ events' = FireUserEvent("flush")
    /\ result' = [result EXCEPT ![t] = [NoReply EXCEPT !.op = "flush"]]
    /\ loaded' = {}
    /\ flushed' = flushed \cup loaded
    /\ UNCHANGED <<lua_time_limit, store, lua, ctx, hook, pc, run, m_killing_func,
                   db, rng, draws, crashed, stacktop, live, heard>>
    /\ UNCHANGED <<mvars, gvars, bvars>>

\* SCRIPT KILL funcname
Kill(t, funcname) ==
    /\ Serving(t)
    /\ ops' = ops + 1
    /\ m_killing_func' = funcname
    /\ events' = FireUserEvent("kill")
    /\ result' = [result EXCEPT ![t] = [NoReply EXCEPT !.op = "kill", !.func = funcname]]
    /\ heard' = [u \in Threads |->
                    \/ heard[u]
                    \/ /\ ctx[u].lua_executing_func # NULL
                       /\ \/ strcasecmp(funcname, KillAll) = 0
                          \/ strcasecmp(funcname, ctx[u].lua_executing_func) = 0]
    /\ UNCHANGED <<lua_time_limit, store, lua, ctx, hook, pc, run, db, rng, draws,
                   crashed, stacktop, loaded, live, flushed>>
    /\ UNCHANGED <<mvars, gvars, bvars>>

\* SCRIPT LOAD func
Load(t, func) ==
    /\ Serving(t)
    /\ ops' = ops + 1
    /\ LET ret == sha1_sum(func)
           c == CreateLuaFunction(lua[t], store, FuncName(ret), func)
       IN /\ lua' = [lua EXCEPT ![t] = c.lua]
          /\ store' = c.store
          /\ result' = [result EXCEPT ![t] =
                 [NoReply EXCEPT !.op = "load", !.func = ret \o c.err,
                                 !.rc = IF c.rc = 0 THEN 1 ELSE 0]]
          /\ loaded' = IF c.rc = 0 THEN loaded \cup {ret} ELSE loaded
          /\ live' = IF c.rc = 0 THEN live \cup {ret} ELSE live
          /\ flushed' = IF c.rc = 0 THEN flushed \ {ret} ELSE flushed
    /\ UNCHANGED <<lua_time_limit, ctx, hook, pc, run, m_killing_func, events, db,
                   rng, draws, crashed, stacktop, heard>>
    /\ UNCHANGED <<mvars, gvars, bvars>>

\* SCRIPT EXISTS sha
Exists(t, sha) ==
    /\ Serving(t)
    /\ ops' = ops + 1
    /\ result' = [result EXCEPT ![t] =
           [NoReply EXCEPT !.op = "exists", !.func = sha,
                           !.rc = IF GetScript(store, FuncName(sha)).rc = 0 THEN 1 ELSE 0]]
    /\ UNCHANGED <<lua_time_limit, store, lua, ctx, hook, pc, run, m_killing_func,
                   events, db, rng, draws, crashed, stacktop, loaded, live,
                   flushed, heard>>
    /\ UNCHANGED <<mvars, gvars, bvars>>

\* a store command of another connection that thread t serves
DirectCmd(t) ==
    /\ Serving(t)
    /\ ops' = ops + 1
    /\ db' = Append(db, [thr |-> t, id |-> 0])
    /\ UNCHANGED <<lua_time_limit, store, lua, ctx, hook, pc, run, m_killing_func,
                   events, rng, draws, result, crashed, stacktop, loaded, live,
                   flushed, heard>>
    /\ UNCHANGED <<mvars, gvars, bvars>>

Next ==
    \/ \E t \in Threads, body \in Bodies : EVAL(t, body)
    \/ \E t \in Threads, sha \in ShaArgs : EVALSHA(t, sha)
    \/ \E t \in Threads : Step(t)
    \/ \E t \in Threads : MaskCountHook(t)
    \/ \E t \in Threads : Continue(t)
    \/ \E t \in Threads : UseAfterClose(t)
    \/ \E t \in Threads : Return(t)
    \/ \E t \in Threads : ScriptEventCallback(t)
    \/ \E t \in Threads : Flush(t)
    \/ \E t \in Threads, funcname \in KillNames : Kill(t, funcname)
    \/ \E t \in Threads, func \in Bodies : Load(t, func)
    \/ \E t \in Threads, sha \in Digests : Exists(t, sha)
    \/ \E t \in Threads : DirectCmd(t)

\* SpecRun: one connection, tried with every kind of script
RunShaArgs == {sha1_sum(b) : b \in {"set2", "bad", "inj"}}

RunNext ==
    \/ \E body \in RunBodies : EVAL(1, body)
    \/ \E sha \in RunShaArgs : EVALSHA(1, sha)
    \/ Step(1)
    \/ MaskCountHook(1)
    \/ Continue(1)
    \/ Return(1)
    \/ ScriptEventCallback(1)
    \/ Kill(1, KillAll)
    \/ \E func \in {"set2", "bad", "inj"} : Load(1, func)
    \/ \E sha \in RunShaArgs : Exists(1, sha)

\* SpecKill: scripts that do not end, and SCRIPT KILL
LoopKillNames == {sha1_sum(b) : b \in LoopBodies} \cup {KillAll}

KillNext ==
    \/ \E t \in Threads, body \in LoopBodies : EVAL(t, body)
    \/ \E t \in Threads : Step(t)
    \/ \E t \in Threads : MaskCountHook(t)
    \/ \E t \in Threads : Continue(t)
    \/ \E t \in Threads : Return(t)
    \/ \E t \in Threads : ScriptEventCallback(t)
    \/ \E t \in Threads, funcname \in LoopKillNames : Kill(t, funcname)

\* The clock goes on, so a hook call finds the limit passed; the I/O loop
\* entered through Continue() handles a waiting event and returns; Eval
\* goes on after lua_pcall.
KillFairness ==
    \A t \in Threads :
        /\ WF_vars(MaskCountHook(t))
        /\ SF_vars(ScriptEventCallback(t))
        /\ WF_vars(Continue(t))
        /\ WF_vars(Return(t))

\* SpecNested: an EVAL that the thread of a yielded script serves
NestedBodies == {"set2", "perr", "rettab", "bad"}

\* lua_pcall of a function from its statement ip to its end: n counts the
\* store commands issued, st and last are as in run
RECURSIVE RunFrom(_, _, _, _)
RunFrom(prog, ip, n, last) ==
    IF ip > Len(prog)
    THEN [n |-> n, st |-> "go", last |-> last]
    ELSE LET ins == prog[ip] IN
         IF ins.op \in {"call", "pcall"}
         THEN LET out == IF ins.op = "call"
                         THEN Call(ins.args, ProcessRedisCommand(ins.args))
                         ELSE PCall(ins.args, ProcessRedisCommand(ins.args))
                  m == IF out.exec THEN n + 1 ELSE n
              IN IF out.raised
                 THEN [n |-> m, st |-> "error", last |-> LString(ErrHandler(out.top.s))]
                 ELSE RunFrom(prog, ip + 1, m, out.top)
         ELSE IF ins.op = "error"
         THEN [n |-> n, st |-> "error", last |-> LString(ErrHandler(ins.args[1].s))]
         ELSE RunFrom(prog, ip + 1, n, ins.args[1])

\* Eval called for another connection's EVAL while the hook of the script
\* running on this thread's interpreter is inside Continue(): Eval has no
\* test for a run in progress.  The served script is short and runs from
\* lua_pcall to the end of Eval in one step.
NestedEval(t, body) ==
    /\ ~crashed /\ pc[t] = "yield" /\ ~run[t].closed /\ ops < MaxOps
    /\ ops' = ops + 1
    /\ rng' = redisSrand48(0)
    /\ LET digest == sha1_sum(body)
           funcname == FuncName(digest)
           defined == lua[t][funcname] # NotDefined
           c == IF defined
                THEN [rc |-> 0, lua |-> lua[t], store |-> store, err |-> <<>>]
                ELSE CreateLuaFunction(lua[t], store, funcname, body)
       IN
       IF c.rc # 0
       THEN /\ result' = [result EXCEPT ![t] =
                   [op |-> "eval", func |-> digest, rc |-> -1, r |-> ReplyError(c.err),
                    ran |-> "none"]]
            /\ lua' = [lua EXCEPT ![t] = c.lua]
            /\ UNCHANGED <<store, ctx, hook, db, loaded, live, flushed>>
       ELSE LET o == RunFrom(Program(c.lua[funcname]), 1, 0, LNil)
                top == IF o.st # "go" \/ ReturnsLast(c.lua[funcname])
                       THEN o.last ELSE LNil
            IN
            /\ lua' = [lua EXCEPT ![t] = c.lua]
            /\ store' = c.store
            /\ db' = db \o [i \in 1..o.n |-> [thr |-> t, id |-> ops + 1]]
            \* lines 744-752 after the served script's lua_pcall
            /\ ctx' = [ctx EXCEPT ![t] = EmptyContext]
            /\ hook' = [hook EXCEPT ![t] = IF lua_time_limit > 0 THEN FALSE ELSE @]
            /\ result' = [result EXCEPT ![t] =
                   [op |-> "eval", func |-> digest, rc |-> 0,
                    r |-> IF o.st = "error"
                          THEN ReplyError(<<"Error running script (call to ">>
                                          \o funcname \o <<"): ">>
                                          \o CStr(top.s) \o <<"LF">>)
                          ELSE luaReplyToRedisReply(top),
                    ran |-> c.lua[funcname]]]
            /\ loaded' = IF defined THEN loaded ELSE loaded \cup {digest}
            /\ live' = live \cup {digest}
            /\ flushed' = flushed \ {digest}
    /\ UNCHANGED <<lua_time_limit, pc, run, m_killing_func, events, draws, crashed,
                   stacktop, heard>>
    /\ UNCHANGED <<mvars, gvars, bvars>>

NestedNext ==
    \/ \E body \in NestedBodies \cup LoopBodies : EVAL(1, body)
    \/ Step(1)
    \/ MaskCountHook(1)
    \/ Continue(1)
    \/ Return(1)
    \/ \E body \in NestedBodies : NestedEval(1, body)
    \/ ScriptEventCallback(1)
    \/ \E funcname \in LoopKillNames : Kill(1, funcname)

----------------------------------------------------------------------------
(* C1 *)

\* C1 as stated: between the first and the last store command that one run
\* issues through the bridge, no store command of another connection or of
\* another run is executed.
C1_RunCommandsContiguous ==
    \A i \in 1..Len(db), k \in 1..Len(db) :
        (i < k /\ db[i].id # 0 /\ db[i].id = db[k].id)
            => \A j \in i..k : db[j].id = db[i].id

----------------------------------------------------------------------------
(* C2 *)

\* C2 as stated: an EVALSHA whose argument is not 40 characters long, or
\* whose digest no successful Load or EVAL has produced since the store was
\* last flushed, replies NOSCRIPT, starts no run, executes no store command,
\* defines no function, writes nothing to the store and leaves the
\* RunContext alone.
C2_NoScriptLaw ==
    [][\A t \in Threads, sha \in ShaArgs :
          (EVALSHA(t, sha) /\ (Len(sha) # DigestLen \/ sha \notin live))
             => /\ result'[t].r = NoScriptReply
                /\ pc'[t] = "idle"
                /\ db' = db /\ lua' = lua /\ store' = store /\ ctx' = ctx]_vars

\* The half of C2 that does not depend on the store lookup: an argument of
\* the wrong length is refused before anything but the generator is touched.
C2_WrongLengthRefused ==
    [][\A t \in Threads :
          EVALSHA(t, ShortArg)
             => /\ result'[t].r = NoScriptReply
                /\ pc'[t] = "idle"
                /\ db' = db /\ lua' = lua /\ store' = store /\ ctx' = ctx]_vars

----------------------------------------------------------------------------
(* C3 *)

\* the body a digest stands for
BodyOf(sha) == CHOOSE b \in Bodies : sha1_sum(b) = sha

\* C3 as stated: once Load or EVAL has defined a body on some connection and
\* no Flush has been issued since, EVALSHA of its digest on any connection
\* runs that body and does not reply NOSCRIPT.
C3_EvalShaAfterDefine ==
    [][\A t \in Threads, sha \in Digests :
          (EVALSHA(t, sha) /\ sha \in loaded)
             => /\ result'[t].rc = 0
                /\ pc'[t] = "run"
                /\ run'[t].body = BodyOf(sha)]_vars

----------------------------------------------------------------------------
(* C4 *)

\* C4 as stated: Exists(digest) is true exactly when the store holds a
\* record under "f_" + digest, which is exactly when a Load or EVAL has
\* produced the digest since FlushScripts last ran.
C4_ExistsIffLoaded ==
    [][\A t \in Threads, sha \in Digests :
          Exists(t, sha)
             => /\ (result'[t].rc = 1) <=> (store[FuncName(sha)] # NoRecord)
                /\ (result'[t].rc = 1) <=> (sha \in live)]_vars

\* What Exists does keep: its answer is the store's.
C4_ExistsIffRecord ==
    [][\A t \in Threads, sha \in Digests :
          Exists(t, sha)
             => ((result'[t].rc = 1) <=> (store[FuncName(sha)] # NoRecord))]_vars

----------------------------------------------------------------------------
(* C5 *)

----------------------------------------------------------------------------
(* C6 *)

KilledMessage == LString(ErrHandler(<<"Script killed by user with SCRIPT KILL...">>))

\* C6 as stated: a run ends with the "Script killed by user" error, and a
\* running connection has lua_kill set, only if a Kill naming the run's
\* function or "all" was issued during that run; a run past the time limit
\* is only flagged.
C6_KilledOnlyByKillDuringRun ==
    \A t \in Threads :
        /\ (pc[t] = "run" /\ run[t].st = "error" /\ run[t].last = KilledMessage)
              => heard[t]
        /\ (pc[t] # "idle" /\ ctx[t].lua_kill) => heard[t]

\* The part of C6 the code keeps: exceeding the limit only sets lua_timeout;
\* lua_kill is set on a running connection only while m_killing_func names
\* its function or "all", letter case apart.
C6_TimeoutOnlyFlags ==
    [][\A t \in Threads :
          /\ (MaskCountHook(t) /\ ~ctx[t].lua_kill) => run'[t].st = "go"
          /\ (pc[t] # "idle" /\ ~ctx[t].lua_kill /\ ctx'[t].lua_kill)
                => \/ strcasecmp(m_killing_func, KillAll) = 0
                   \/ strcasecmp(m_killing_func, ctx[t].lua_executing_func) = 0]_vars

----------------------------------------------------------------------------
(* C8 *)

\* a run of body on thread t has been replied to
RunDone(t, body) ==
    /\ pc[t] = "idle" /\ result[t].op \in {"eval", "evalsha"}
    /\ result[t].rc = 0 /\ result[t].ran = body

\* C8 as stated: two runs of the same script draw the same sequence of
\* random values, whatever other connections do meanwhile.
C8_SameDraws ==
    \A t \in Threads, u \in Threads :
        (RunDone(t, "rnd2") /\ RunDone(u, "rnd2")) => draws[t] = draws[u]

\* What the reseeding does give: the first value a run draws right after its
\* own Eval began is always the same.
C8_SeedResetAtStart ==
    [][\A t \in Threads, body \in Bodies :
          EVAL(t, body) => rng' = redisSrand48(0)]_vars

----------------------------------------------------------------------------
(* C11 *)

\* C11 as stated: whenever Eval returns, after a run or after rejecting the
\* call, lua_executing_func is unset, lua_timeout is false, the hook is
\* off and the interpreter's stack is as deep as it was before the call.
C11_CleanupCompletes ==
    [][\A t \in Threads :
          /\ Return(t)
                => /\ ctx'[t].lua_executing_func = NULL
                   /\ ~ctx'[t].lua_timeout /\ ~hook'[t]
                   /\ stacktop'[t] = run[t].base
          /\ ((\E body \in RunBodies : EVAL(t, body)) /\ pc'[t] = "idle")
                => /\ ctx'[t].lua_executing_func = NULL
                   /\ ~ctx'[t].lua_timeout /\ ~hook'[t]
                   /\ stacktop'[t] = stacktop[t]
          /\ ((\E sha \in RunShaArgs : EVALSHA(t, sha)) /\ pc'[t] = "idle")
                => /\ ctx'[t].lua_executing_func = NULL
                   /\ ~ctx'[t].lua_timeout /\ ~hook'[t]
                   /\ stacktop'[t] = stacktop[t]]_vars

\* What Eval does keep on every return: the function is unset, the timeout
\* flag is false and the hook is off.
C11_ContextCleared ==
    \A t \in Threads :
        pc[t] = "idle" => /\ ctx[t].lua_executing_func = NULL
                          /\ ~ctx[t].lua_timeout /\ ~hook[t]

----------------------------------------------------------------------------
(* C12 *)

\* C12 as stated: in every reachable state, every function f_<digest> that
\* some interpreter has defined has a record in the script store, holding
\* the body that was compiled.
C12_CacheConsistent ==
    \A t \in Threads, n \in FuncNames :
        lua[t][n] # NotDefined => store[n] = lua[t][n]

----------------------------------------------------------------------------
(* C13 *)

\* the reply Eval gives for a killed run of the function result[t].func
KilledReply(t) ==
    ReplyError(<<"Error running script (call to ">> \o FuncName(result[t].func)
               \o <<"): ">> \o KilledMessage.s \o <<"LF">>)

\* C13 as stated: with a positive time limit, a run of a script that keeps
\* reaching the hook, during which a Kill naming its function or "all" was
\* issued, eventually ends with the "Script killed by user" Error reply.
C13_KillTakesEffect ==
    \A t \in Threads :
        (pc[t] # "idle" /\ heard[t] /\ lua_time_limit > 0)
            ~> (pc[t] = "idle" /\ result[t].r = KilledReply(t))

----------------------------------------------------------------------------
(* C14 *)

\* C14 as stated: once an Eval run has returned, the connection's
\* RunContext is empty: no executing function, lua_timeout false and
\* lua_kill false.
C14_ContextEmptyAfterRun ==
    \A t \in Threads : pc[t] = "idle" => ctx[t] = EmptyContext

----------------------------------------------------------------------------
(* C15 *)

\* CreateLuaFunction does not succeed on the body
DefineFails(body) == ~Compiles(body) \/ ~ChunkRuns(body)

\* the last command of t's connection was a Load or EVAL whose define of
\* f_<sha> failed
FailedDefine(t, sha) ==
    \/ result[t].op = "eval" /\ result[t].rc = -1 /\ result[t].func = sha
    \/ /\ result[t].op = "load" /\ result[t].rc = 0
       /\ SubSeq(result[t].func, 1, DigestLen) = sha

\* C15 as stated: a Load or EVAL whose define fails returns an error and
\* leaves the store, the interpreter's functions and the RunContext as they
\* were; an Exists on that digest afterwards is false and an EVALSHA on it
\* replies NOSCRIPT.
C15_FailedDefineChangesNothing ==
    [][\A t \in Threads :
          /\ \A body \in RunBodies :
                (/\ EVAL(t, body) /\ DefineFails(body)
                 /\ lua[t][FuncName(sha1_sum(body))] = NotDefined)
                    => /\ result'[t].r.type = "ERROR" /\ pc'[t] = "idle"
                       /\ store' = store /\ lua' = lua /\ ctx' = ctx
          /\ \A body \in RunBodies :
                (Load(t, body) /\ DefineFails(body))
                    => /\ result'[t].rc = 0
                       /\ store' = store /\ lua' = lua /\ ctx' = ctx
          /\ \A sha \in RunShaArgs :
                (FailedDefine(t, sha) /\ Exists(t, sha)) => result'[t].rc = 0
          /\ \A sha \in RunShaArgs :
                (FailedDefine(t, sha) /\ EVALSHA(t, sha))
                    => result'[t].r = NoScriptReply]_vars

\* What holds of a body that does not compile: the failed define itself
\* changes neither the store nor the interpreter nor the RunContext.
C15_CompileFailureChangesNothing ==
    [][\A t \in Threads :
          (/\ EVAL(t, "bad") \/ Load(t, "bad")
           /\ lua[t][FuncName(sha1_sum("bad"))] = NotDefined)
              => store' = store /\ lua' = lua /\ ctx' = ctx]_vars

----------------------------------------------------------------------------
(* C16 *)

\* every worker thread has handled every SCRIPT FLUSH event fired so far
FlushDelivered ==
    \A t \in Threads : \A i \in 1..Len(events[t]) : events[t][i] # "flush"

\* C16 as stated: once the flush has been delivered to every thread and no
\* script has been defined since it was issued, the store has no record and
\* no interpreter a function for a digest loaded before the flush, so that
\* Exists is false and EVALSHA replies NOSCRIPT for it on every connection.
C16_FlushComplete ==
    [][\A d \in Digests :
          (d \in flushed /\ loaded = {} /\ FlushDelivered)
              => /\ store[FuncName(d)] = NoRecord
                 /\ \A t \in Threads :
                       /\ lua[t][FuncName(d)] = NotDefined
                       /\ Exists(t, d) => result'[t].rc = 0
                       /\ EVALSHA(t, d) => result'[t].r = NoScriptReply]_vars

\* What holds: right after the last pending flush event is handled, with
\* nothing defined since the flush, the store is empty and the handling
\* interpreter defines no script function.
C16_FlushEmptiesStore ==
    [][\A t \in Threads :
          (/\ ScriptEventCallback(t) /\ Head(events[t]) = "flush")
              => /\ \A n \in FuncNames : store'[n] = NoRecord
                 /\ \A n \in FuncNames : lua'[t][n] = NotDefined]_vars

----------------------------------------------------------------------------
(* C17 *)

\* sub occurs in s
Contains(s, sub) ==
    \E i \in 1..(Len(s) - Len(sub) + 1) : SubSeq(s, i, i + Len(sub) - 1) = sub

\* the statement the run of t is at is a bridge call that is dispatched
AtDispatchedCall(t) ==
    /\ pc[t] = "run" /\ run[t].st = "go"
    /\ run[t].ip <= Len(Program(run[t].body))
    /\ Program(run[t].body)[run[t].ip].op \in {"call", "pcall"}
    /\ ~Gated(Program(run[t].body)[run[t].ip].args)

\* the store commands issued so far by the run of t
IssuedBy(t, d) == {i \in DOMAIN d : d[i].thr = t /\ d[i].id = run[t].id}

\* C17: when a dispatched bridge call captures an Error reply, the raising
\* entry point (CallArdb with raise_error, lines 417-420) ends the run at
\* that call: no later statement runs, no later store command is issued and
\* the run's reply is an Error carrying the message; the returning entry
\* point (lines 422-425) gives the script the table {err = message} and the
\* script goes on.  When the reply is not an Error both entry points give
\* the same converted value.
C17_RaiseVersusReturn ==
    [][\A t \in Threads :
          LET ins == Program(run[t].body)[run[t].ip]
              reply == ProcessRedisCommand(ins.args)
          IN
          \* the call itself
          /\ (AtDispatchedCall(t) /\ Step(t))
                => /\ Cardinality(IssuedBy(t, db')) = Cardinality(IssuedBy(t, db)) + 1
                   /\ IF reply.type = "ERROR"
                      THEN IF ins.op = "pcall"
                           THEN /\ run'[t].st = "error"
                                /\ Contains(run'[t].last.s, reply.str)
                           ELSE /\ run'[t].st = "go"
                                /\ run'[t].ip = run[t].ip + 1
                                /\ run'[t].last = LTable(OneField("err", LString(reply.str)), <<>>)
                      ELSE /\ run'[t].st = "go"
                           /\ run'[t].ip = run[t].ip + 1
                           /\ run'[t].last = redisProtocolToLuaType(reply)
          \* after the raise: nothing runs but the return of the Error
          /\ (pc[t] = "run" /\ run[t].st = "error")
                => /\ ~Step(t)
                   /\ IssuedBy(t, db') = IssuedBy(t, db)
                   /\ run'[t] # run[t]
                        => /\ pc'[t] = "idle"
                           /\ run[t].closed
                                \/ /\ result'[t].r.type = "ERROR"
                                   /\ Contains(result'[t].r.str, CStr(run[t].last.s))
          \* after the returned table: the next statement can run
          /\ (/\ pc[t] = "run" /\ run[t].st = "go"
              /\ run[t].ip <= Len(Program(run[t].body)))
                => ENABLED Step(t)]_vars

\* both entry points give the same outcome for every reply that is not an
\* Error, whatever the arguments
C17_SameWhenNoError ==
    \A args \in ArgLists, reply \in ExecReplies :
        reply.type # "ERROR" => PCall(args, reply) = Call(args, reply)

\* a run whose pcall raised has returned its Error and issued the failing
\* command only; or a run whose call returned the table went on to its set
C17_Witness ==
    /\ pc[1] = "idle" /\ result[1].op = "eval"
    /\ result[1].func = sha1_sum("perr")
    /\ result[1].r.type = "ERROR"
    /\ Contains(result[1].r.str, <<"ERR value is not an integer or out of range">>)
    /\ Len(db) = 1

----------------------------------------------------------------------------
(* C19 *)

\* the reply of the Eval that thread t has completed
EvalReplied(t) == pc[t] = "idle" /\ result[t].op \in {"eval", "evalsha"}

\* C19 as stated: no Error or Status reply of an Eval, whether it comes from
\* a returned {err=...} or {ok=...} table, from a raised error, from a kill
\* or from a compile failure, holds a CR LF pair in its message.
C19_NoLineTerminator ==
    \A t \in Threads :
        (EvalReplied(t) /\ result[t].r.type \in {"ERROR", "STATUS"})
            => ~HasCRLF(result[t].r.str)

\* What holds: the Error of a returned {err=...} table has had its CR LF
\* pairs replaced.
C19_ReturnedTableSafe ==
    \A t \in Threads :
        (EvalReplied(t) /\ result[t].ran = "rettab" /\ result[t].r.type = "ERROR")
            => ~HasCRLF(result[t].r.str)

----------------------------------------------------------------------------
(* C20 *)

\* C20 as stated: on a connection whose interpreter does not define f_d,
\* EVALSHA d replies NOSCRIPT exactly when Exists(d) is false, and never
\* defines and runs an empty body for a digest the store does not hold.
C20_ExistsAgreesWithEvalSha ==
    [][\A t \in Threads, d \in Digests :
          (lua[t][FuncName(d)] = NotDefined /\ EVALSHA(t, d))
              => /\ (result'[t].r = NoScriptReply /\ pc'[t] = "idle")
                        <=> GetScript(store, FuncName(d)).rc # 0
                 /\ store[FuncName(d)] = NoRecord => pc'[t] = "idle"]_vars

\* What holds: both commands read the same record of the store, and the
\* EVALSHA that finds the interpreter without f_d replies NOSCRIPT exactly
\* when Exists is true.
C20_EvalShaInverted ==
    [][\A t \in Threads, d \in Digests :
          (lua[t][FuncName(d)] = NotDefined /\ EVALSHA(t, d))
              => ((result'[t].r = NoScriptReply /\ pc'[t] = "idle")
                     <=> store[FuncName(d)] # NoRecord)]_vars

----------------------------------------------------------------------------
(* C21 *)

\* thread t handles a SCRIPT_FLUSH_EVENT: lua.Reset() and FlushScripts()
HandlesFlush(t) == ScriptEventCallback(t) /\ Head(events[t]) = "flush"

\* C21 as stated: Reset is never performed on an interpreter whose
\* connection has lua_executing_func set, also not when the flush event
\* arrives while the hook of a timed-out script is inside Continue().
C21_NoResetDuringRun ==
    [][\A t \in Threads :
          HandlesFlush(t) => ctx[t].lua_executing_func = NULL]_vars

----------------------------------------------------------------------------
(* C22 *)

\* every SCRIPT_KILL_EVENT fired so far has been handled on thread t
KillsDelivered(t) == \A i \in 1..Len(events[t]) : events[t][i] # "kill"

\* C22 as stated: Kill requests do not interfere.  A connection whose
\* running function was named by a Kill request (heard) is marked lua_kill
\* once the kill events have been handled on its thread, whatever other
\* Kill request was issued in between; no request is lost because a later
\* one overwrote m_killing_func.
C22_NoKillLost ==
    \A t \in Threads :
        (/\ pc[t] # "idle" /\ ctx[t].lua_executing_func # NULL
         /\ heard[t] /\ KillsDelivered(t))
            => ctx[t].lua_kill

----------------------------------------------------------------------------
(* C23 *)

\* C23 as stated: a script that Load or EVAL defined after the last SCRIPT
\* FLUSH call returned keeps its record in the store, where Exists and
\* EVALSHA of every connection look it up, until the next SCRIPT FLUSH is
\* issued, also while threads still have the earlier flush event to handle.
C23_DefineSurvivesEarlierFlush ==
    \A d \in loaded : store[FuncName(d)] # NoRecord

\* What holds: only the handling of a flush event removes a record.
C23_OnlyFlushEventRemoves ==
    [][\A n \in FuncNames :
          (store[n] # NoRecord /\ store'[n] = NoRecord)
              => \E t \in Threads : HandlesFlush(t)]_vars

----------------------------------------------------------------------------
(* C24 *)

\* C24 as stated: no Eval begins on an interpreter, or for a RunContext,
\* whose lua_executing_func is set, also not while the hook of a timed-out
\* run is inside Continue(); so the cleanup of one run never clears
\* lua_executing_func or the hook of a run still in progress.
C24_OneRunPerInterpreter ==
    [][\A t \in Threads :
          /\ \A body \in NestedBodies \cup LoopBodies :
                (EVAL(t, body) \/ NestedEval(t, body))
                    => ctx[t].lua_executing_func = NULL
          /\ (pc[t] # "idle" /\ pc'[t] # "idle" /\ run'[t].id = run[t].id)
                => /\ ctx[t].lua_executing_func # NULL
                        => ctx'[t].lua_executing_func = ctx[t].lua_executing_func
                   /\ hook[t] => hook'[t]]_vars

\* What holds: the EVAL of a connection whose thread is between commands
\* finds no run in progress.
C24_IdleEvalFindsNoRun ==
    [][\A t \in Threads : \A body \in NestedBodies \cup LoopBodies :
          EVAL(t, body) => ctx[t].lua_executing_func = NULL /\ ~hook[t]]_vars

----------------------------------------------------------------------------
(* C25 *)

\* the run of t is unwound by the error the hook raises for a kill
RaisesKilled(t) ==
    /\ pc[t] # "idle" /\ run[t].st = "go"
    /\ run'[t].st = "error" /\ run'[t].last = KilledMessage

\* C25: lua_kill is set for a running connection only by the kill event
\* handled on that connection's own thread, which happens only inside the
\* Continue() the hook calls once lua_timeout is set; so a run is unwound
\* by the kill error, and replies with it, only with lua_timeout set in that
\* run; and with a time limit that is not positive the hook is not
\* installed and no run is flagged, yielded or killed, whatever Kill
\* requests are issued.
C25_KillOnlyAfterTimeout ==
    [][\A t \in Threads :
          /\ (~ctx[t].lua_kill /\ ctx'[t].lua_kill)
                => /\ ScriptEventCallback(t) /\ Head(events[t]) = "kill"
                   /\ pc[t] = "yield"
                   /\ ctx[t].lua_timeout /\ ctx[t].lua_executing_func # NULL
          /\ RaisesKilled(t)
                => ctx[t].lua_timeout /\ ctx[t].lua_kill
          /\ (Return(t) /\ run[t].last = KilledMessage /\ run[t].st = "error")
                => ctx[t].lua_timeout /\ lua_time_limit > 0
          /\ lua_time_limit <= 0
                => /\ ~hook'[t] /\ pc'[t] # "yield"
                   /\ ~ctx'[t].lua_timeout /\ ~ctx'[t].lua_kill
                   /\ run'[t].last # KilledMessage]_vars

\* C25's case: a run that was flagged, yielded and was marked by a kill
\* event has replied with the kill error
C25_Witness ==
    \E t \in Threads :
        /\ lua_time_limit > 0 /\ pc[t] = "idle"
        /\ result[t].op = "eval" /\ result[t].r = KilledReply(t)
        /\ heard[t] /\ ctx[t].lua_kill

\* with no time limit a Kill naming the running function has been issued
\* and the run goes on unmarked
C25_WitnessNoLimit ==
    \E t \in Threads :
        /\ lua_time_limit = 0 /\ pc[t] = "run" /\ heard[t]
        /\ events[t] # <<>> /\ ~ctx[t].lua_kill

----------------------------------------------------------------------------
(* Specifications                                                          *)

GIdle == G = InitGlobals /\ gmt = TRUE /\ gres = NoAccess
BIdle == bpc = "idle" /\ bargs = <<>> /\ braise = FALSE /\ bout = NoOutcome /\ bexec = 0
MIdle == mpc = "idle" /\ mreply = ReplyNil /\ mlua = LNil /\ mback = ReplyNil
SIdle == ServerInit /\ lua_time_limit = 0


InitMarshal == MarshalInit /\ GIdle /\ BIdle /\ SIdle

SpecMarshal == InitMarshal /\ [][MarshalNext]_vars

InitSandbox == MIdle /\ GIdle /\ BIdle /\ SIdle

SpecSandbox == InitSandbox /\ [][SandboxNext]_vars

InitBridge == MIdle /\ GIdle /\ BridgeInit /\ SIdle

SpecBridge == InitBridge /\ [][BridgeNext]_vars

InitTable == TableInit /\ GIdle /\ BIdle /\ SIdle

SpecTable == InitTable /\ [][TableNext]_vars

Init == MIdle /\ GIdle /\ BIdle /\ ServerInit

Spec == Init /\ [][Next]_vars

SpecRun == Init /\ [][RunNext]_vars

SpecKill == Init /\ [][KillNext]_vars /\ KillFairness

SpecNested == Init /\ [][NestedNext]_vars

====
